---- MODULE Spec2Model ----
(***************************************************************************)
(* Model of the LD_PRELOAD memory profiler: the interception layer         *)
(* (malloc / free / calloc / realloc, profiler_init, profiler_cleanup) and *)
(* the allocation registry (hash_table.c), together with the real          *)
(* allocator they call.  One action per step of the C code that reads or   *)
(* writes shared state; straight-line thread-local code is folded into the *)
(* step that precedes it.                                                  *)
(***************************************************************************)
EXTENDS Integers, Sequences, FiniteSets, TLC

\* ------------------------------------------------------------------ bounds
MaxAddr == 2      \* block addresses the real allocator can hand out
MaxSize == 2      \* largest size / element count a call may request
MaxOps  == 3      \* entry-point calls issued by the program in one run

\* ------------------------------------------------------- program constants
NULL == 0
MAX_STACK_FRAMES == 16
TOP_FRAMES == 7

Threads == {1, 2}
Addr    == 1 .. MaxAddr
\* An address that is never the base of a heap block: a stack variable, a
\* string literal, the interior of a block.
Wild    == MaxAddr + 1
Sizes   == 1 .. MaxSize
\* size_t arithmetic, scaled down: nmemb * size wraps at SizeMod
SizeMod == (MaxSize * MaxSize)

\* File names of loaded objects, as sequences of pieces of text.
LibcPath == << "/lib/", "libc.so", ".6" >>
OtherLibcPath == << "/opt/my", "libc.so" >>
ProfilerPath == << "./", "libprofiler", ".so" >>
UserPath == << "./", "test_program" >>
\* The text is_likely_libc_allocation looks for.
LIBC_SO == << "libc.so" >>

\* What dladdr() answers for a return address: 0, or non-zero with
\* dli_fname set or NULL (has_fname tells which).
DlInfo(ret, has_fname, dli_fname) ==
  [ret |-> ret, has_fname |-> has_fname, dli_fname |-> dli_fname]
NoObject == DlInfo(0, FALSE, << >>)
NoName == DlInfo(1, FALSE, << >>)
Obj(path) == DlInfo(1, TRUE, path)
Objects == { NoObject, NoName, Obj(LibcPath), Obj(OtherLibcPath),
             Obj(ProfilerPath), Obj(UserPath) }

\* A call site of the program, by what backtrace() returns in an entry
\* point called from it: the number of frames captured, and what dladdr()
\* says of trace[1] and trace[2] (trace[0] is the entry point itself).
Site(depth, f1, f2) == [depth |-> depth, frames |-> << f1, f2 >>]
Backtraces == { Site(1, Obj(LibcPath), Obj(LibcPath)),
                Site(9, Obj(UserPath), Obj(LibcPath)),
                Site(MAX_STACK_FRAMES, Obj(LibcPath), Obj(UserPath)) }
\* Every kind of call site.
Depths == {1, 2, 9, MAX_STACK_FRAMES}
CallSites == { Site(d, f1, f2) : d \in Depths, f1 \in Objects,
                                f2 \in Objects }

\* What dlsym(RTLD_NEXT, ...) resolves, fixed for the life of the process.
AllSyms == {"malloc", "free", "calloc", "realloc"}
DlsymCases == { AllSyms, AllSyms \ {"free"}, AllSyms \ {"malloc"} }
\* PROFILER_STACK_TRACES in the environment.
EnvCases == {"unset", "0"}
\* The same with a value other than "0".
EnvValues == {"unset", "0", "1"}

VARIABLES
  \* --- malloc_intercept state
  profiler_initialized, profiler_shutting_down, in_profiler, show_stack_traces,
  real_malloc, real_free, real_calloc, real_realloc,
  real_malloc_ptr, real_free_ptr,
  \* --- hash_table state
  g_allocations, hash_table_mutex,
  \* --- threads: position, executing function, C locals
  pc, fn, loc,
  \* --- the shutdown hook, what it printed and what it released
  hook, leak_report, teardown,
  \* --- environment: the real heap, the process, dlsym and getenv
  heap, proc, dlsym_ok, env_stack_traces,
  \* --- observation of the run (history, not program state)
  hist, tracked, nops

progVars == << profiler_initialized, profiler_shutting_down, in_profiler,
               show_stack_traces, real_malloc, real_free, real_calloc,
               real_realloc, real_malloc_ptr, real_free_ptr >>
tableVars == << g_allocations, hash_table_mutex >>
envVars == << dlsym_ok, env_stack_traces >>
reportVars == << leak_report, teardown >>
vars == << progVars, tableVars, pc, fn, loc, hook, reportVars, heap, proc,
           envVars, hist, tracked, nops >>

\* ------------------------------------------------------------------ records
\* No call site: the stack has not been captured.
NoSite == Site(0, NoObject, NoObject)

\* hash_table_remove's `found` when HASH_FIND_PTR found nothing: no record
\* has a NULL key, so ptr tells a record from none.
NoInfo == [ptr |-> NULL, size |-> 0, is_suspicious |-> 0, stack_depth |-> 0,
           stack_trace |-> NULL]

\* The C locals of an entry point.  Four fields are not locals: event is
\* what report_corruption_error wrote to stderr in this call; absent
\* records, for a release call, whether its argument was missing from the
\* table when the call was made; via is the caller of the running entry
\* point, the program or realloc (which calls malloc and free itself); site
\* is the call site in the program the captured stack leads back to.
NoLoc == [ptr |-> NULL, size |-> 0, nmemb |-> 0, new_ptr |-> NULL,
          depth |-> 0, is_suspicious |-> 0, absent |-> FALSE,
          via |-> "program", site |-> NoSite, found |-> NoInfo,
          event |-> << >>]

\* ------------------------------------------------------- registry helpers
Keys(tab) == { tab[i].ptr : i \in DOMAIN tab }
Matches(tab, a) == { i \in DOMAIN tab : tab[i].ptr = a }
\* HASH_FIND_PTR: the positions it may return for key a (0: not found).  With
\* two records under one key the one returned depends on bucket order.
HASH_FIND_PTR(tab, a) == IF Matches(tab, a) = {} THEN {0} ELSE Matches(tab, a)
\* HASH_DEL: unlink the record at position i.
HASH_DEL(tab, i) == [j \in 1 .. (Len(tab) - 1) |->
                        IF j < i THEN tab[j] ELSE tab[j + 1]]
\* HASH_ADD_PTR: link the record in, whatever the table holds already.
HASH_ADD_PTR(tab, r) == Append(tab, r)

\* ------------------------------------------------------ the real allocator
\* The profiler's own records live in blocks the program never sees; the
\* heap below is the part of the real heap the program's blocks come from.
FreeAddrs == { a \in Addr : heap[a] = "free" }
\* malloc/calloc of the real allocator: any free block, or NULL.
RealAllocResults == FreeAddrs \cup {NULL}
IsLive(a) == a \in Addr /\ heap[a] = "user"
\* free() of something that is not a live block is undefined in the real
\* allocator: it may go unnoticed or abort the process.
RealFreeProc(a) == IF IsLive(a) THEN {"running"} ELSE {"running", "crashed"}
HeapFree(h, a) == IF a \in Addr THEN [h EXCEPT ![a] = "free"] ELSE h
HeapTake(h, a) == IF a \in Addr THEN [h EXCEPT ![a] = "user"] ELSE h

Min(a, b) == IF a < b THEN a ELSE b

\* ------------------------------------------------------------- classifier
\* is_likely_libc_allocation that looks for libc in either frame (C24 must
\* notice).
is_likely_libc_any_frame(stack_trace, depth) ==
  IF depth < 2 THEN 0
  ELSE IF \E k \in 1 .. 2 :
            /\ stack_trace[k].ret # 0
            /\ stack_trace[k].has_fname
            /\ \E i \in DOMAIN stack_trace[k].dli_fname :
                 stack_trace[k].dli_fname[i] = "libc.so"
       THEN 1 ELSE 0

\* strstr(haystack, needle) != NULL
StrStr(haystack, needle) ==
  \E i \in 1 .. (Len(haystack) - Len(needle) + 1) :
    SubSeq(haystack, i, i + Len(needle) - 1) = needle

\* The callers pass a local array, so stack_trace is never NULL; only
\* stack_trace[1] is looked at, and only when depth >= 2.
is_likely_libc_allocation(stack_trace, depth) ==
  IF depth < 2 THEN 0
  ELSE LET info == stack_trace[1]
       IN IF info.ret # 0
          THEN IF info.has_fname /\ StrStr(info.dli_fname, LIBC_SO)
               THEN 1 ELSE 0
          ELSE 0

\* ------------------------------------------------------------------- state
InitWith(dls, envs) ==
  /\ profiler_initialized = 0
  /\ profiler_shutting_down = 0
  /\ in_profiler = 0
  /\ show_stack_traces = 1
  /\ real_malloc = FALSE /\ real_free = FALSE
  /\ real_calloc = FALSE /\ real_realloc = FALSE
  /\ real_malloc_ptr = FALSE /\ real_free_ptr = FALSE
  /\ g_allocations = << >>
  /\ hash_table_mutex = 0
  /\ pc = [t \in Threads |-> "idle"]
  /\ fn = [t \in Threads |-> "none"]
  /\ loc = [t \in Threads |-> NoLoc]
  /\ hook = "idle"
  /\ leak_report = << >>
  /\ teardown = << >>
  /\ heap = [a \in Addr |-> "free"]
  /\ proc = "running"
  /\ dlsym_ok \in dls
  /\ env_stack_traces \in envs
  /\ hist = [a \in Addr |-> "none"]
  /\ tracked = [a \in Addr |-> "no"]
  /\ nops = 0

Init == InitWith({AllSyms}, {"unset"})

\* A thread of the program may take a step: the process is alive and the
\* shutdown hook is not running (it runs on the exiting thread).
At(t, label) ==
  /\ proc = "running"
  /\ hook \in {"idle", "done"}
  /\ pc[t] = label

Goto(t, label) == pc' = [pc EXCEPT ![t] = label]

\* The function returns to the program: its locals die.
ReturnToProgram(t) ==
  /\ pc' = [pc EXCEPT ![t] = "idle"]
  /\ fn' = [fn EXCEPT ![t] = "none"]
  /\ loc' = [loc EXCEPT ![t] = NoLoc]

Body(f) == CASE f = "malloc"  -> "malloc_real"
             [] f = "calloc"  -> "calloc_real"
             [] f = "free"    -> "free_early"
             [] f = "realloc" -> "realloc_dispatch"

\* History of an address: "none" (the program never received it), then,
\* since the program last received it, "out" (from malloc, not passed to
\* free since), "freed" (passed to free once), "again" (passed to free more
\* than once), "other" (calloc, realloc or the shutdown were involved).
HistRelease(h, a) ==
  IF a \notin Addr THEN h
  ELSE IF profiler_shutting_down # 0 THEN [h EXCEPT ![a] = "other"]
  ELSE IF h[a] = "out" THEN [h EXCEPT ![a] = "freed"]
  ELSE IF h[a] \in {"freed", "again"} THEN [h EXCEPT ![a] = "again"]
  ELSE [h EXCEPT ![a] = "other"]
HistRealloc(h, a) == IF a \in Addr THEN [h EXCEPT ![a] = "other"] ELSE h
HistOut(h, a, how) == IF a \in Addr THEN [h EXCEPT ![a] = how] ELSE h
\* Addresses tracked and not passed to the release path since: "real" when
\* tagged as a user allocation, "libc" when tagged as infrastructure.
Released(tr, a) == IF a \in Addr THEN [tr EXCEPT ![a] = "no"] ELSE tr
Tracked(tr, a, susp) ==
  IF a \notin Addr THEN tr
  ELSE [tr EXCEPT ![a] = IF susp = 0 THEN "real" ELSE "libc"]

\* The program calls entry point op, whose first statement is
\* `if (!profiler_initialized) profiler_init();`
\* An allocating entry point returns v to the program.
ReturnValue(t, v) ==
  /\ ReturnToProgram(t)
  /\ hist' = HistOut(hist, v, IF fn[t] = "malloc" THEN "out" ELSE "other")

\* The pointers a program passes: one it received at some time (it may be
\* stale), NULL, or an address that is no block.
PtrArgs == { a \in Addr : hist[a] # "none" } \cup {NULL, Wild}

NewCall(t, op) ==
  /\ nops < MaxOps
  /\ nops' = nops + 1
  /\ fn' = [fn EXCEPT ![t] = op]
  /\ Goto(t, IF profiler_initialized = 0 THEN "init_check" ELSE Body(op))

\* ------------------------------------------------- the program's calls
\* S is the set of sizes the program may ask for.
call_malloc(t, S) ==
  /\ At(t, "idle")
  /\ NewCall(t, "malloc")
  /\ \E n \in S : loc' = [loc EXCEPT ![t] = [NoLoc EXCEPT !.size = n]]
  /\ UNCHANGED << progVars, tableVars, hook, reportVars, heap, proc,
                  envVars, hist, tracked >>

call_calloc(t, S) ==
  /\ At(t, "idle")
  /\ NewCall(t, "calloc")
  /\ \E m \in S, n \in S :
       loc' = [loc EXCEPT ![t] = [NoLoc EXCEPT !.nmemb = m, !.size = n]]
  /\ UNCHANGED << progVars, tableVars, hook, reportVars, heap, proc,
                  envVars, hist, tracked >>

call_realloc(t, S) ==
  /\ At(t, "idle")
  /\ NewCall(t, "realloc")
  /\ \E p \in PtrArgs, n \in S \cup {0} :
       /\ loc' = [loc EXCEPT ![t] =
             [NoLoc EXCEPT !.ptr = p, !.size = n,
                           !.absent = (p \notin Keys(g_allocations))]]
       /\ hist' = HistRealloc(hist, p)
       /\ tracked' = Released(tracked, p)
  /\ UNCHANGED << progVars, tableVars, hook, reportVars, heap, proc,
                  envVars >>

call_free(t) ==
  /\ At(t, "idle")
  /\ NewCall(t, "free")
  /\ \E p \in PtrArgs :
       /\ loc' = [loc EXCEPT ![t] =
             [NoLoc EXCEPT !.ptr = p,
                           !.absent = (p \notin Keys(g_allocations))]]
       /\ hist' = HistRelease(hist, p)
       /\ tracked' = Released(tracked, p)
  /\ UNCHANGED << progVars, tableVars, hook, reportVars, heap, proc,
                  envVars >>

\* ------------------------------------------ initialization on first call
\* profiler_init: `if (profiler_initialized) return;`
profiler_init_check(t) ==
  /\ At(t, "init_check")
  /\ Goto(t, IF profiler_initialized # 0 THEN Body(fn[t]) ELSE "init_mark")
  /\ UNCHANGED << progVars, tableVars, fn, loc, hook, reportVars, heap,
                  proc, envVars, hist, tracked, nops >>

\* profiler_init_mark that turns the stack traces off for any value of
\* PROFILER_STACK_TRACES (C35 must notice).
profiler_init_mark_any_value(t) ==
  /\ At(t, "init_mark")
  /\ profiler_initialized' = 1
  /\ show_stack_traces' = IF env_stack_traces # "unset" THEN 0
                          ELSE show_stack_traces
  /\ Goto(t, "init_dlsym")
  /\ UNCHANGED << profiler_shutting_down, in_profiler, real_malloc,
                  real_free, real_calloc, real_realloc, real_malloc_ptr,
                  real_free_ptr, tableVars, fn, loc, hook, reportVars, heap,
                  proc, envVars, hist, tracked, nops >>

\* profiler_init: set the flag, read PROFILER_STACK_TRACES.
profiler_init_mark(t) ==
  /\ At(t, "init_mark")
  /\ profiler_initialized' = 1
  /\ show_stack_traces' = IF env_stack_traces = "0" THEN 0
                          ELSE show_stack_traces
  /\ Goto(t, "init_dlsym")
  /\ UNCHANGED << profiler_shutting_down, in_profiler, real_malloc,
                  real_free, real_calloc, real_realloc, real_malloc_ptr,
                  real_free_ptr, tableVars, fn, loc, hook, reportVars, heap,
                  proc, envVars, hist, tracked, nops >>

\* profiler_init: the four dlsym(RTLD_NEXT, ...) lookups.
profiler_init_dlsym(t) ==
  /\ At(t, "init_dlsym")
  /\ real_malloc' = ("malloc" \in dlsym_ok)
  /\ real_free' = ("free" \in dlsym_ok)
  /\ real_calloc' = ("calloc" \in dlsym_ok)
  /\ real_realloc' = ("realloc" \in dlsym_ok)
  /\ Goto(t, "init_export")
  /\ UNCHANGED << profiler_initialized, profiler_shutting_down, in_profiler,
                  show_stack_traces, real_malloc_ptr, real_free_ptr,
                  tableVars, fn, loc, hook, reportVars, heap, proc, envVars,
                  hist, tracked, nops >>

\* profiler_init_export that verifies real_malloc only (C34 must notice).
profiler_init_export_checks_malloc(t) ==
  /\ At(t, "init_export")
  /\ IF ~real_malloc
     THEN /\ proc' = "exited"
          /\ UNCHANGED << real_malloc_ptr, real_free_ptr, pc >>
     ELSE /\ real_malloc_ptr' = real_malloc
          /\ real_free_ptr' = real_free
          /\ Goto(t, "init_table")
          /\ UNCHANGED proc
  /\ UNCHANGED << profiler_initialized, profiler_shutting_down, in_profiler,
                  show_stack_traces, real_malloc, real_free, real_calloc,
                  real_realloc, tableVars, fn, loc, hook, reportVars, heap,
                  envVars, hist, tracked, nops >>

\* profiler_init: verify malloc and free were found (else _exit(1)), then
\* publish them to hash_table.c.
profiler_init_export(t) ==
  /\ At(t, "init_export")
  /\ IF ~real_malloc \/ ~real_free
     THEN /\ proc' = "exited"
          /\ UNCHANGED << real_malloc_ptr, real_free_ptr, pc >>
     ELSE /\ real_malloc_ptr' = real_malloc
          /\ real_free_ptr' = real_free
          /\ Goto(t, "init_table")
          /\ UNCHANGED proc
  /\ UNCHANGED << profiler_initialized, profiler_shutting_down, in_profiler,
                  show_stack_traces, real_malloc, real_free, real_calloc,
                  real_realloc, tableVars, fn, loc, hook, reportVars, heap,
                  envVars, hist, tracked, nops >>

\* hash_table_init, called last by profiler_init: reset the table head.
hash_table_init(t) ==
  /\ At(t, "init_table")
  /\ g_allocations' = << >>
  /\ Goto(t, Body(fn[t]))
  /\ UNCHANGED << progVars, hash_table_mutex, fn, loc, hook, reportVars,
                  heap, proc, envVars, hist, tracked, nops >>

\* ------------------------------------------------------ malloc and calloc
\* malloc: `void *ptr = real_malloc(size);`  A call through a pointer that
\* is still NULL kills the process.
malloc_real(t) ==
  /\ At(t, "malloc_real")
  /\ IF ~real_malloc
     THEN /\ proc' = "crashed"
          /\ UNCHANGED << pc, loc, heap >>
     ELSE \E p \in RealAllocResults :
          /\ loc' = [loc EXCEPT ![t].ptr = p]
          /\ heap' = HeapTake(heap, p)
          /\ Goto(t, "alloc_guard")
          /\ UNCHANGED proc
  /\ UNCHANGED << progVars, tableVars, fn, hook, reportVars, envVars,
                  hist, tracked, nops >>

\* calloc_real that passes size, not nmemb * size, on to hash_table_add
\* (C28 must notice).
calloc_real_tracks_size(t) ==
  /\ At(t, "calloc_real")
  /\ IF ~real_calloc
     THEN /\ proc' = "crashed"
          /\ UNCHANGED << pc, loc, heap >>
     ELSE \E p \in (IF loc[t].nmemb * loc[t].size >= SizeMod
                     THEN {NULL} ELSE RealAllocResults) :
          /\ loc' = [loc EXCEPT ![t].ptr = p, ![t].nmemb = 0]
          /\ heap' = HeapTake(heap, p)
          /\ Goto(t, "alloc_guard")
          /\ UNCHANGED proc
  /\ UNCHANGED << progVars, tableVars, fn, hook, reportVars, envVars,
                  hist, tracked, nops >>

\* calloc: `void *ptr = real_calloc(nmemb, size);`  The real calloc refuses
\* a product that does not fit size_t.  The size tracked later is the
\* wrapped product nmemb * size.
calloc_real(t) ==
  /\ At(t, "calloc_real")
  /\ IF ~real_calloc
     THEN /\ proc' = "crashed"
          /\ UNCHANGED << pc, loc, heap >>
     ELSE \E p \in (IF loc[t].nmemb * loc[t].size >= SizeMod
                     THEN {NULL} ELSE RealAllocResults) :
          /\ loc' = [loc EXCEPT ![t].ptr = p, ![t].nmemb = 0,
                         ![t].size = (loc[t].nmemb * loc[t].size) % SizeMod]
          /\ heap' = HeapTake(heap, p)
          /\ Goto(t, "alloc_guard")
          /\ UNCHANGED proc
  /\ UNCHANGED << progVars, tableVars, fn, hook, reportVars, envVars,
                  hist, tracked, nops >>

\* alloc_guard_read that tests the guard only, `if (!in_profiler)` (C27
\* must notice).
alloc_guard_read_ignores_null(t) ==
  /\ At(t, "alloc_guard")
  /\ IF in_profiler = 0
     THEN Goto(t, "alloc_set") /\ UNCHANGED << fn, loc, hist >>
     ELSE ReturnValue(t, loc[t].ptr)
  /\ UNCHANGED << progVars, tableVars, hook, reportVars, heap, proc,
                  envVars, tracked, nops >>

\* malloc / calloc: `if (!in_profiler && ptr)`, else `return ptr`.
alloc_guard_read(t) ==
  /\ At(t, "alloc_guard")
  /\ IF in_profiler = 0 /\ loc[t].ptr # NULL
     THEN Goto(t, "alloc_set") /\ UNCHANGED << fn, loc, hist >>
     ELSE ReturnValue(t, loc[t].ptr)
  /\ UNCHANGED << progVars, tableVars, hook, reportVars, heap, proc,
                  envVars, tracked, nops >>

\* backtrace(trace, MAX_STACK_FRAMES) in an entry point called from call
\* site bt: frame 0 is the entry point, frame 1 its caller.  When realloc
\* made the call, frame 1 is realloc, in the profiler's own library, and the
\* program's frames follow.
Backtrace(t, bt) ==
  IF loc[t].via = "realloc"
  THEN Site(Min(bt.depth + 1, MAX_STACK_FRAMES), Obj(ProfilerPath),
            bt.frames[1])
  ELSE bt

\* `int depth = backtrace(...)` and
\* `int is_suspicious = is_likely_libc_allocation(trace, depth)`, the
\* arguments of the hash_table_add that follows.
CaptureStack(t, bt) ==
  loc' = [loc EXCEPT ![t].depth = Backtrace(t, bt).depth,
                     ![t].is_suspicious =
                         is_likely_libc_allocation(Backtrace(t, bt).frames,
                                                   Backtrace(t, bt).depth),
                     ![t].site = bt]

\* malloc / calloc: `in_profiler = 1;` then the stack capture.  B is the set
\* of call sites the program calls from.
alloc_guard_set(t, B) ==
  /\ At(t, "alloc_set")
  /\ in_profiler' = 1
  /\ \E bt \in B : CaptureStack(t, bt)
  /\ Goto(t, "add_alloc")
  /\ UNCHANGED << profiler_initialized, profiler_shutting_down,
                  show_stack_traces, real_malloc, real_free, real_calloc,
                  real_realloc, real_malloc_ptr, real_free_ptr, tableVars,
                  fn, hook, reportVars, heap, proc, envVars, hist,
                  tracked, nops >>

\* ---------------------------------------------------------- hash_table_add
\* The address being tracked: malloc and calloc pass ptr, realloc new_ptr.
AddKey(t) == IF fn[t] = "realloc" THEN loc[t].new_ptr ELSE loc[t].ptr

\* hash_table_add_alloc that gives up the process when the record's
\* storage cannot be obtained (C16 must notice).
hash_table_add_alloc_aborts(t) ==
  /\ At(t, "add_alloc")
  /\ IF AddKey(t) = NULL \/ ~real_malloc_ptr
     THEN Goto(t, "guard_clear") /\ UNCHANGED << loc, proc >>
     ELSE \E info \in {NULL, 1}, stack \in {NULL, 1} :
          IF info = NULL
          THEN proc' = "crashed" /\ UNCHANGED << pc, loc >>
          ELSE /\ loc' = [loc EXCEPT ![t].depth =
                             IF stack # NULL THEN @ ELSE 0]
               /\ Goto(t, "add_lock")
               /\ UNCHANGED proc
  /\ UNCHANGED << progVars, tableVars, fn, hook, reportVars, heap,
                  envVars, hist, tracked, nops >>

\* hash_table_add: the two early returns, then the record's storage from
\* real_malloc_ptr (on NULL print the diagnostic and return), then storage
\* for the copied stack; without it stack_depth stays 0.  stack_trace is 1
\* for a non-NULL copy.
hash_table_add_alloc(t) ==
  /\ At(t, "add_alloc")
  /\ IF AddKey(t) = NULL \/ ~real_malloc_ptr
     THEN Goto(t, "guard_clear") /\ UNCHANGED loc
     ELSE \E info \in {NULL, 1}, stack \in {NULL, 1} :
          IF info = NULL
          THEN Goto(t, "guard_clear") /\ UNCHANGED loc
          ELSE /\ loc' = [loc EXCEPT ![t].depth =
                             IF stack # NULL THEN @ ELSE 0]
               /\ Goto(t, "add_lock")
  /\ UNCHANGED << progVars, tableVars, fn, hook, reportVars, heap, proc,
                  envVars, hist, tracked, nops >>

\* hash_table_add: pthread_mutex_lock(&hash_table_mutex).
hash_table_add_lock(t) ==
  /\ At(t, "add_lock")
  /\ hash_table_mutex = 0
  /\ hash_table_mutex' = t
  /\ Goto(t, "add_insert")
  /\ UNCHANGED << progVars, g_allocations, fn, loc, hook, reportVars, heap,
                  proc, envVars, hist, tracked, nops >>

\* The record hash_table_add has filled in.
NewInfo(t) == [ptr |-> AddKey(t), size |-> loc[t].size,
               is_suspicious |-> loc[t].is_suspicious,
               stack_depth |-> loc[t].depth,
               stack_trace |-> IF loc[t].depth > 0 THEN 1 ELSE NULL]

\* hash_table_add_insert without its pthread_mutex_unlock (C10 must notice).
hash_table_add_insert_no_unlock(t) ==
  /\ At(t, "add_insert")
  /\ g_allocations' = HASH_ADD_PTR(g_allocations, NewInfo(t))
  /\ tracked' = Tracked(tracked, AddKey(t), loc[t].is_suspicious)
  /\ Goto(t, "guard_clear")
  /\ UNCHANGED << progVars, hash_table_mutex, fn, loc, hook, reportVars,
                  heap, proc, envVars, hist, nops >>

\* hash_table_add: HASH_ADD_PTR, pthread_mutex_unlock, return.
hash_table_add_insert(t) ==
  /\ At(t, "add_insert")
  /\ g_allocations' = HASH_ADD_PTR(g_allocations, NewInfo(t))
  /\ hash_table_mutex' = 0
  /\ tracked' = Tracked(tracked, AddKey(t), loc[t].is_suspicious)
  /\ Goto(t, "guard_clear")
  /\ UNCHANGED << progVars, fn, loc, hook, reportVars, heap, proc, envVars,
                  hist, nops >>

\* malloc / calloc / realloc after tracking: `in_profiler = 0; return`.
guard_clear(t) ==
  /\ At(t, "guard_clear")
  /\ in_profiler' = 0
  /\ ReturnValue(t, AddKey(t))
  /\ UNCHANGED << profiler_initialized, profiler_shutting_down,
                  show_stack_traces, real_malloc, real_free, real_calloc,
                  real_realloc, real_malloc_ptr, real_free_ptr, tableVars,
                  hook, reportVars, heap, proc, envVars, tracked, nops >>

\* -------------------------------------------------------------------- free
\* free_early without the test of profiler_shutting_down (C18 must notice).
free_early_always_validates(t) ==
  /\ At(t, "free_early")
  /\ IF loc[t].ptr = NULL THEN ReturnToProgram(t)
     ELSE /\ Goto(t, "free_guard")
          /\ UNCHANGED << fn, loc >>
  /\ UNCHANGED << progVars, tableVars, hook, reportVars, heap, proc,
                  envVars, hist, tracked, nops >>

\* free: `if (!ptr) return;` then `if (profiler_shutting_down)`.
free_early(t) ==
  /\ At(t, "free_early")
  /\ IF loc[t].ptr = NULL THEN ReturnToProgram(t)
     ELSE /\ Goto(t, IF profiler_shutting_down # 0 THEN "free_real"
                     ELSE "free_guard")
          /\ UNCHANGED << fn, loc >>
  /\ UNCHANGED << progVars, tableVars, hook, reportVars, heap, proc,
                  envVars, hist, tracked, nops >>

\* free_guard_read that validates whatever the guard says (C37 must
\* notice).
free_guard_read_always_validates(t) ==
  /\ At(t, "free_guard")
  /\ Goto(t, "free_set")
  /\ UNCHANGED << progVars, tableVars, fn, loc, hook, reportVars, heap,
                  proc, envVars, hist, tracked, nops >>

\* free: `if (!in_profiler)`; when the guard is set the validation is
\* skipped and the real free follows.
free_guard_read(t) ==
  /\ At(t, "free_guard")
  /\ Goto(t, IF in_profiler = 0 THEN "free_set" ELSE "free_real")
  /\ UNCHANGED << progVars, tableVars, fn, loc, hook, reportVars, heap,
                  proc, envVars, hist, tracked, nops >>

\* free: `in_profiler = 1;`
free_guard_set(t) ==
  /\ At(t, "free_set")
  /\ in_profiler' = 1
  /\ Goto(t, "find_lock")
  /\ UNCHANGED << profiler_initialized, profiler_shutting_down,
                  show_stack_traces, real_malloc, real_free, real_calloc,
                  real_realloc, real_malloc_ptr, real_free_ptr, tableVars,
                  fn, loc, hook, reportVars, heap, proc, envVars, hist,
                  tracked, nops >>

\* hash_table_find: pthread_mutex_lock.
hash_table_find_lock(t) ==
  /\ At(t, "find_lock")
  /\ hash_table_mutex = 0
  /\ hash_table_mutex' = t
  /\ Goto(t, "find_lookup")
  /\ UNCHANGED << progVars, g_allocations, fn, loc, hook, reportVars, heap,
                  proc, envVars, hist, tracked, nops >>

\* hash_table_find: HASH_FIND_PTR, unlock, return found; free then branches
\* on `if (!found)`.
hash_table_find_lookup(t) ==
  /\ At(t, "find_lookup")
  /\ hash_table_mutex' = 0
  /\ Goto(t, IF HASH_FIND_PTR(g_allocations, loc[t].ptr) = {0}
             THEN "free_report" ELSE "remove_lock")
  /\ UNCHANGED << progVars, g_allocations, fn, loc, hook, reportVars, heap,
                  proc, envVars, hist, tracked, nops >>

\* A line, or a group of frame lines, written to stderr: kind, address, a
\* count (frames, records) and a number of bytes.
Line(k, a, n, b) == [k |-> k, a |-> a, n |-> n, b |-> b]

\* backtrace(stack_trace, MAX_STACK_FRAMES) in report_corruption_error,
\* called by free called from call site bt: one frame more than free sees.
ReportDepth(t, bt) == Min(Backtrace(t, bt).depth + 1, MAX_STACK_FRAMES)

\* free, not found: report_corruption_error(ptr, ...) writes the [CORRUPTION]
\* line and, `if (show_stack_traces)`, the top frames of the current stack
\* and an empty line.
report_corruption_error(t, B) ==
  /\ At(t, "free_report")
  /\ IF show_stack_traces # 0
     THEN \E bt \in B :
          loc' = [loc EXCEPT
                    ![t].depth = ReportDepth(t, bt),
                    ![t].site = bt,
                    ![t].event =
                       << Line("corruption", loc[t].ptr, 0, 0),
                          Line("frames", loc[t].ptr,
                               IF ReportDepth(t, bt) < 7
                               THEN ReportDepth(t, bt) ELSE 7, 0),
                          Line("blank", NULL, 0, 0) >>]
     ELSE loc' = [loc EXCEPT
                    ![t].event = << Line("corruption", loc[t].ptr, 0, 0) >>]
  /\ Goto(t, "free_corrupt")
  /\ UNCHANGED << progVars, tableVars, fn, hook, reportVars, heap, proc,
                  envVars, hist, tracked, nops >>

\* free_corrupt_return that also throws the table away (C9 must notice).
free_corrupt_drops_records(t) ==
  /\ At(t, "free_corrupt")
  /\ in_profiler' = 0
  /\ g_allocations' = << >>
  /\ ReturnToProgram(t)
  /\ UNCHANGED << profiler_initialized, profiler_shutting_down,
                  show_stack_traces, real_malloc, real_free, real_calloc,
                  real_realloc, real_malloc_ptr, real_free_ptr,
                  hash_table_mutex, hook, reportVars, heap, proc, envVars,
                  hist, tracked, nops >>

\* free_corrupt_return that returns without `in_profiler = 0;` (C36 must
\* notice).
free_corrupt_return_keeps_guard(t) ==
  /\ At(t, "free_corrupt")
  /\ ReturnToProgram(t)
  /\ UNCHANGED << progVars, tableVars, hook, reportVars, heap, proc,
                  envVars, hist, tracked, nops >>

\* free, after report_corruption_error: `in_profiler = 0; return;`
free_corrupt_return(t) ==
  /\ At(t, "free_corrupt")
  /\ in_profiler' = 0
  /\ ReturnToProgram(t)
  /\ UNCHANGED << profiler_initialized, profiler_shutting_down,
                  show_stack_traces, real_malloc, real_free, real_calloc,
                  real_realloc, real_malloc_ptr, real_free_ptr, tableVars,
                  hook, reportVars, heap, proc, envVars, hist, tracked,
                  nops >>

\* ------------------------------------------------------- hash_table_remove
\* hash_table_remove: pthread_mutex_lock.
hash_table_remove_lock(t) ==
  /\ At(t, "remove_lock")
  /\ hash_table_mutex = 0
  /\ hash_table_mutex' = t
  /\ Goto(t, "remove_delete")
  /\ UNCHANGED << progVars, g_allocations, fn, loc, hook, reportVars, heap,
                  proc, envVars, hist, tracked, nops >>

\* hash_table_remove_delete without its HASH_DEL (C5 must notice).
hash_table_remove_keeps_record(t) ==
  /\ At(t, "remove_delete")
  /\ hash_table_mutex' = 0
  /\ Goto(t, "remove_release")
  /\ UNCHANGED << progVars, g_allocations, fn, loc, hook, reportVars, heap,
                  proc, envVars, hist, tracked, nops >>

\* hash_table_remove_delete that returns to its caller's release of the
\* storage with the mutex still held (C33 must notice).
hash_table_remove_delete_keeps_lock(t) ==
  /\ At(t, "remove_delete")
  /\ \E i \in HASH_FIND_PTR(g_allocations, loc[t].ptr) :
       /\ g_allocations' = IF i = 0 THEN g_allocations
                           ELSE HASH_DEL(g_allocations, i)
       /\ loc' = [loc EXCEPT ![t].found =
                    IF i = 0 THEN NoInfo ELSE g_allocations[i]]
  /\ Goto(t, "remove_release")
  /\ UNCHANGED << progVars, hash_table_mutex, fn, hook, reportVars, heap,
                  proc, envVars, hist, tracked, nops >>

\* hash_table_remove: HASH_FIND_PTR, HASH_DEL when found, unlock.
hash_table_remove_delete(t) ==
  /\ At(t, "remove_delete")
  /\ \E i \in HASH_FIND_PTR(g_allocations, loc[t].ptr) :
       /\ g_allocations' = IF i = 0 THEN g_allocations
                           ELSE HASH_DEL(g_allocations, i)
       /\ loc' = [loc EXCEPT ![t].found =
                    IF i = 0 THEN NoInfo ELSE g_allocations[i]]
  /\ hash_table_mutex' = 0
  /\ Goto(t, "remove_release")
  /\ UNCHANGED << progVars, fn, hook, reportVars, heap, proc, envVars,
                  hist, tracked, nops >>

\* hash_table_remove, after the unlock: `if (found)` release the stack copy
\* and the record through real_free_ptr, then return to free or realloc.
hash_table_remove_release(t) ==
  /\ At(t, "remove_release")
  /\ IF loc[t].found.ptr # NULL /\ ~real_free_ptr
     THEN /\ proc' = "crashed"
          /\ UNCHANGED << pc, loc >>
     ELSE /\ loc' = [loc EXCEPT ![t].found = NoInfo]
          /\ Goto(t, IF fn[t] = "free" THEN "free_clear" ELSE "realloc_new")
          /\ UNCHANGED proc
  /\ UNCHANGED << progVars, tableVars, fn, hook, reportVars, heap, envVars,
                  hist, tracked, nops >>

\* free, found: `in_profiler = 0;` after hash_table_remove.
free_guard_clear(t) ==
  /\ At(t, "free_clear")
  /\ in_profiler' = 0
  /\ Goto(t, "free_real")
  /\ UNCHANGED << profiler_initialized, profiler_shutting_down,
                  show_stack_traces, real_malloc, real_free, real_calloc,
                  real_realloc, real_malloc_ptr, real_free_ptr, tableVars,
                  fn, loc, hook, reportVars, heap, proc, envVars, hist,
                  tracked, nops >>

\* free: `real_free(ptr);`
free_real(t) ==
  /\ At(t, "free_real")
  /\ IF ~real_free
     THEN /\ proc' = "crashed"
          /\ UNCHANGED << pc, fn, loc, heap >>
     ELSE /\ proc' \in RealFreeProc(loc[t].ptr)
          /\ heap' = HeapFree(heap, loc[t].ptr)
          /\ ReturnToProgram(t)
  /\ UNCHANGED << progVars, tableVars, hook, reportVars, envVars, hist,
                  tracked, nops >>

\* ----------------------------------------------------------------- realloc
\* realloc_dispatch that passes size 0 on to the real realloc (C12 must
\* notice).
realloc_dispatch_resizes_to_zero(t) ==
  /\ At(t, "realloc_dispatch")
  /\ IF loc[t].ptr = NULL
     THEN /\ fn' = [fn EXCEPT ![t] = "malloc"]
          /\ loc' = [loc EXCEPT ![t].via = "realloc"]
          /\ Goto(t, "malloc_real")
     ELSE /\ UNCHANGED << fn, loc >>
          /\ Goto(t, "realloc_real")
  /\ UNCHANGED << progVars, tableVars, hook, reportVars, heap, proc,
                  envVars, hist, tracked, nops >>

\* realloc: `if (!ptr) return malloc(size);`
\*          `if (size == 0) { free(ptr); return NULL; }`
\* Both run the interposed function, whose initialization check passes.
realloc_dispatch(t) ==
  /\ At(t, "realloc_dispatch")
  /\ IF loc[t].ptr = NULL
     THEN /\ fn' = [fn EXCEPT ![t] = "malloc"]
          /\ loc' = [loc EXCEPT ![t].via = "realloc"]
          /\ Goto(t, "malloc_real")
     ELSE IF loc[t].size = 0
     THEN /\ fn' = [fn EXCEPT ![t] = "free"]
          /\ loc' = [loc EXCEPT ![t].via = "realloc"]
          /\ Goto(t, "free_early")
     ELSE /\ UNCHANGED << fn, loc >>
          /\ Goto(t, "realloc_real")
  /\ UNCHANGED << progVars, tableVars, hook, reportVars, heap, proc,
                  envVars, hist, tracked, nops >>

\* realloc: `void *new_ptr = real_realloc(ptr, size);`  On a live block it
\* resizes in place, moves the block (the old address is released) or fails
\* with NULL leaving the block alone.  On anything else it is undefined.
realloc_real(t) ==
  /\ At(t, "realloc_real")
  /\ IF ~real_realloc
     THEN /\ proc' = "crashed"
          /\ UNCHANGED << pc, loc, heap >>
     ELSE IF IsLive(loc[t].ptr)
     THEN \E q \in FreeAddrs \cup {NULL, loc[t].ptr} :
          /\ loc' = [loc EXCEPT ![t].new_ptr = q]
          /\ heap' = IF q \in FreeAddrs
                     THEN HeapTake(HeapFree(heap, loc[t].ptr), q)
                     ELSE heap
          /\ UNCHANGED proc
          /\ Goto(t, "realloc_guard")
     ELSE \/ /\ proc' = "crashed"
             /\ UNCHANGED << pc, loc, heap >>
          \/ \E q \in RealAllocResults :
             /\ loc' = [loc EXCEPT ![t].new_ptr = q]
             /\ heap' = HeapTake(heap, q)
             /\ UNCHANGED proc
             /\ Goto(t, "realloc_guard")
  /\ UNCHANGED << progVars, tableVars, fn, hook, reportVars, envVars,
                  hist, tracked, nops >>

\* realloc: `if (!in_profiler)`, else `return new_ptr`.
realloc_guard_read(t) ==
  /\ At(t, "realloc_guard")
  /\ IF in_profiler = 0
     THEN Goto(t, "realloc_set") /\ UNCHANGED << fn, loc, hist >>
     ELSE ReturnValue(t, loc[t].new_ptr)
  /\ UNCHANGED << progVars, tableVars, hook, reportVars, heap, proc,
                  envVars, tracked, nops >>

\* realloc_guard_set that keeps the old record when the real realloc has
\* failed (C31 must notice).
realloc_guard_set_keeps_failed(t) ==
  /\ At(t, "realloc_set")
  /\ in_profiler' = 1
  /\ Goto(t, IF loc[t].new_ptr = NULL THEN "realloc_new" ELSE "remove_lock")
  /\ UNCHANGED << profiler_initialized, profiler_shutting_down,
                  show_stack_traces, real_malloc, real_free, real_calloc,
                  real_realloc, real_malloc_ptr, real_free_ptr, tableVars,
                  fn, loc, hook, reportVars, heap, proc, envVars, hist,
                  tracked, nops >>

\* realloc: `in_profiler = 1;` then hash_table_remove(ptr).
realloc_guard_set(t) ==
  /\ At(t, "realloc_set")
  /\ in_profiler' = 1
  /\ Goto(t, "remove_lock")
  /\ UNCHANGED << profiler_initialized, profiler_shutting_down,
                  show_stack_traces, real_malloc, real_free, real_calloc,
                  real_realloc, real_malloc_ptr, real_free_ptr, tableVars,
                  fn, loc, hook, reportVars, heap, proc, envVars, hist,
                  tracked, nops >>

\* realloc: `if (new_ptr)` capture the stack and call hash_table_add.
realloc_track_new(t, B) ==
  /\ At(t, "realloc_new")
  /\ IF loc[t].new_ptr # NULL
     THEN /\ \E bt \in B : CaptureStack(t, bt)
          /\ Goto(t, "add_alloc")
     ELSE /\ Goto(t, "guard_clear")
          /\ UNCHANGED loc
  /\ UNCHANGED << progVars, tableVars, fn, hook, reportVars, heap, proc,
                  envVars, hist, tracked, nops >>

\* ------------------------------------------------------------ shutdown hook
\* hash_table_report_leaks, the HASH_ITER pass from record i on.  acc holds
\* the lines printed so far and the four counters.
RECURSIVE ReportPass(_, _, _, _)
ReportPass(tab, i, show, acc) ==
  IF i > Len(tab) THEN acc
  ELSE LET current == tab[i] IN
    IF current.is_suspicious = 0
    THEN LET header == IF acc.confirmed_count = 0
                       THEN << Line("header", NULL, 0, 0) >> ELSE << >>
             frames == IF show # 0 /\ current.stack_trace # NULL
                          /\ current.stack_depth > 0
                       THEN << Line("frames", current.ptr,
                                    Min(current.stack_depth, TOP_FRAMES), 0) >>
                       ELSE << >>
         IN ReportPass(tab, i + 1, show,
              [acc EXCEPT
                 !.out = @ \o header
                           \o << Line("leak", current.ptr, 0, current.size) >>
                           \o frames \o << Line("blank", NULL, 0, 0) >>,
                 !.confirmed_count = @ + 1,
                 !.confirmed_bytes = @ + current.size])
    ELSE ReportPass(tab, i + 1, show,
              [acc EXCEPT !.suspicious_count = @ + 1,
                          !.suspicious_bytes = @ + current.size])

\* ReportLeaks that prints the summary whatever the counts (C20 must
\* notice).
ReportLeaksAlways(tab, show) ==
  LET acc == ReportPass(tab, 1, show,
                 [out |-> << >>, confirmed_count |-> 0, suspicious_count |-> 0,
                  confirmed_bytes |-> 0, suspicious_bytes |-> 0])
  IN acc.out
     \o << Line("summary", NULL, 0, 0),
           Line("real", NULL, acc.confirmed_count, acc.confirmed_bytes),
           Line("footer", NULL, 0, 0) >>

\* ReportLeaks that prints the infrastructure bytes on the "Real leaks" line
\* (C21 must notice).
ReportLeaksSwapsBytes(tab, show) ==
  LET acc == ReportPass(tab, 1, show,
                 [out |-> << >>, confirmed_count |-> 0, suspicious_count |-> 0,
                  confirmed_bytes |-> 0, suspicious_bytes |-> 0])
  IN IF acc.confirmed_count > 0 \/ acc.suspicious_count > 0
     THEN acc.out
          \o << Line("summary", NULL, 0, 0),
                Line("real", NULL, acc.confirmed_count, acc.suspicious_bytes) >>
          \o (IF acc.suspicious_count > 0
              THEN << Line("libc", NULL, acc.suspicious_count,
                           acc.suspicious_bytes) >>
              ELSE << >>)
          \o << Line("footer", NULL, 0, 0) >>
     ELSE acc.out

\* ReportLeaks that prints the infrastructure line whenever it prints the
\* summary (C22 must notice).
ReportLeaksAlwaysLibc(tab, show) ==
  LET acc == ReportPass(tab, 1, show,
                 [out |-> << >>, confirmed_count |-> 0, suspicious_count |-> 0,
                  confirmed_bytes |-> 0, suspicious_bytes |-> 0])
  IN IF acc.confirmed_count > 0 \/ acc.suspicious_count > 0
     THEN acc.out
          \o << Line("summary", NULL, 0, 0),
                Line("real", NULL, acc.confirmed_count, acc.confirmed_bytes),
                Line("libc", NULL, acc.suspicious_count,
                     acc.suspicious_bytes),
                Line("footer", NULL, 0, 0) >>
     ELSE acc.out

\* hash_table_report_leaks: everything it prints for the table tab.
ReportLeaks(tab, show) ==
  LET acc == ReportPass(tab, 1, show,
                 [out |-> << >>, confirmed_count |-> 0, suspicious_count |-> 0,
                  confirmed_bytes |-> 0, suspicious_bytes |-> 0])
  IN IF acc.confirmed_count > 0 \/ acc.suspicious_count > 0
     THEN acc.out
          \o << Line("summary", NULL, 0, 0),
                Line("real", NULL, acc.confirmed_count, acc.confirmed_bytes) >>
          \o (IF acc.suspicious_count > 0
              THEN << Line("libc", NULL, acc.suspicious_count,
                           acc.suspicious_bytes) >>
              ELSE << >>)
          \o << Line("footer", NULL, 0, 0) >>
     ELSE acc.out

\* profiler_cleanup without `profiler_shutting_down = 1;` (C17 must notice).
profiler_cleanup_keeps_flag ==
  /\ proc = "running"
  /\ hook = "idle"
  /\ \A u \in Threads : pc[u] = "idle"
  /\ hook' = "report"
  /\ UNCHANGED << progVars, tableVars, pc, fn, loc, reportVars, heap, proc,
                  envVars, hist, tracked, nops >>

\* The library is unloaded when the program has left every entry point.
\* profiler_cleanup: `profiler_shutting_down = 1;`
profiler_cleanup ==
  /\ proc = "running"
  /\ hook = "idle"
  /\ \A u \in Threads : pc[u] = "idle"
  /\ profiler_shutting_down' = 1
  /\ hook' = "report"
  /\ UNCHANGED << profiler_initialized, in_profiler, show_stack_traces,
                  real_malloc, real_free, real_calloc, real_realloc,
                  real_malloc_ptr, real_free_ptr, tableVars, pc, fn, loc,
                  reportVars, heap, proc, envVars, hist, tracked, nops >>

\* hash_table_report_leaks that marks every record it has visited as
\* infrastructure (C25 must notice).
hash_table_report_leaks_retags ==
  /\ proc = "running"
  /\ hook = "report"
  /\ leak_report' = ReportLeaks(g_allocations, show_stack_traces)
  /\ g_allocations' = [i \in DOMAIN g_allocations |->
                         [g_allocations[i] EXCEPT !.is_suspicious = 1]]
  /\ hook' = "drain"
  /\ UNCHANGED << progVars, hash_table_mutex, pc, fn, loc, teardown, heap,
                  proc, envVars, hist, tracked, nops >>

\* profiler_cleanup: hash_table_report_leaks().
hash_table_report_leaks ==
  /\ proc = "running"
  /\ hook = "report"
  /\ leak_report' = ReportLeaks(g_allocations, show_stack_traces)
  /\ hook' = "drain"
  /\ UNCHANGED << progVars, tableVars, pc, fn, loc, teardown, heap, proc,
                  envVars, hist, tracked, nops >>

\* A call real_free_ptr(x) made by hash_table_cleanup: x is the stack copy
\* or the allocation_info_t of the record that was i-th in the table.
StorageFree(k, i) == [k |-> k, rec |-> i]

\* hash_table_cleanup, the HASH_ITER pass: tab is what is left of the table,
\* i the original position of its first record, acc the calls made so far.
RECURSIVE CleanupPass(_, _, _)
CleanupPass(tab, i, acc) ==
  IF tab = << >> THEN [tab |-> tab, out |-> acc]
  ELSE LET current == tab[1] IN
    CleanupPass(HASH_DEL(tab, 1), i + 1,
                acc \o (IF current.stack_trace # NULL
                        THEN << StorageFree("stack_trace", i) >>
                        ELSE << >>)
                    \o << StorageFree("info", i) >>)

\* hash_table_cleanup that clears the table head and releases nothing (C19
\* must notice).
hash_table_cleanup_drops_table ==
  /\ proc = "running"
  /\ hook = "drain"
  /\ g_allocations' = << >>
  /\ hook' = "done"
  /\ UNCHANGED << progVars, hash_table_mutex, pc, fn, loc, reportVars, heap,
                  proc, envVars, hist, tracked, nops >>

\* hash_table_cleanup: HASH_DEL every record and release its storage (no
\* lock is taken), then `g_allocations = NULL;`
hash_table_cleanup ==
  /\ proc = "running"
  /\ hook = "drain"
  /\ teardown' = teardown \o CleanupPass(g_allocations, 1, << >>).out
  /\ g_allocations' = << >>
  /\ hook' = "done"
  /\ UNCHANGED << progVars, hash_table_mutex, pc, fn, loc, leak_report, heap,
                  proc, envVars, hist, tracked, nops >>

\* ----------------------------------------------------------- specification
\* One step of thread t of a program that asks for sizes in S and calls from
\* the call sites in B.
Step(t, S, B) ==
  \/ call_malloc(t, S) \/ call_calloc(t, S) \/ call_realloc(t, S)
  \/ call_free(t)
  \/ profiler_init_check(t) \/ profiler_init_mark(t)
  \/ profiler_init_dlsym(t) \/ profiler_init_export(t)
  \/ hash_table_init(t)
  \/ malloc_real(t) \/ calloc_real(t) \/ alloc_guard_read(t)
  \/ alloc_guard_set(t, B)
  \/ hash_table_add_alloc(t) \/ hash_table_add_lock(t)
  \/ hash_table_add_insert(t) \/ guard_clear(t)
  \/ free_early(t) \/ free_guard_read(t) \/ free_guard_set(t)
  \/ hash_table_find_lock(t) \/ hash_table_find_lookup(t)
  \/ report_corruption_error(t, B) \/ free_corrupt_return(t)
  \/ hash_table_remove_lock(t) \/ hash_table_remove_delete(t)
  \/ hash_table_remove_release(t)
  \/ free_guard_clear(t) \/ free_real(t)
  \/ realloc_dispatch(t) \/ realloc_real(t) \/ realloc_guard_read(t)
  \/ realloc_guard_set(t) \/ realloc_track_new(t, B)

Hook == profiler_cleanup \/ hash_table_report_leaks \/ hash_table_cleanup

\* Two threads; the program asks for one size from one call site in user
\* code.
UserSite == { bt \in Backtraces : bt.frames[1] = Obj(UserPath) }
Next == (\E t \in Threads : Step(t, {1}, UserSite)) \/ Hook

Spec == Init /\ [][Next]_vars

\* The same program run on one thread.
InitSeq == InitWith(DlsymCases, EnvCases)
NextSeq == Step(1, Sizes, Backtraces) \/ Hook
SpecSeq == InitSeq /\ [][NextSeq]_vars

\* A program that only allocates, on one thread, from every kind of call
\* site.
StepAlloc(t, S, B) ==
  \/ call_malloc(t, S) \/ call_calloc(t, S)
  \/ profiler_init_check(t) \/ profiler_init_mark(t)
  \/ profiler_init_dlsym(t) \/ profiler_init_export(t)
  \/ hash_table_init(t)
  \/ malloc_real(t) \/ calloc_real(t) \/ alloc_guard_read(t)
  \/ alloc_guard_set(t, B)
  \/ hash_table_add_alloc(t) \/ hash_table_add_lock(t)
  \/ hash_table_add_insert(t) \/ guard_clear(t)
NextAlloc == StepAlloc(1, {1}, CallSites)
SpecAlloc == Init /\ [][NextAlloc]_vars

\* A program that allocates and never frees, on one thread, until the
\* library is unloaded.
NextLeak == StepAlloc(1, Sizes, Backtraces) \/ Hook
SpecLeak == Init /\ [][NextLeak]_vars

\* A program that allocates and frees with malloc and free, on one thread,
\* under every setting of PROFILER_STACK_TRACES.
StepFree(t, S, B) ==
  \/ call_malloc(t, S) \/ call_free(t)
  \/ profiler_init_check(t) \/ profiler_init_mark(t)
  \/ profiler_init_dlsym(t) \/ profiler_init_export(t)
  \/ hash_table_init(t)
  \/ malloc_real(t) \/ alloc_guard_read(t) \/ alloc_guard_set(t, B)
  \/ hash_table_add_alloc(t) \/ hash_table_add_lock(t)
  \/ hash_table_add_insert(t) \/ guard_clear(t)
  \/ free_early(t) \/ free_guard_read(t) \/ free_guard_set(t)
  \/ hash_table_find_lock(t) \/ hash_table_find_lookup(t)
  \/ report_corruption_error(t, B) \/ free_corrupt_return(t)
  \/ hash_table_remove_lock(t) \/ hash_table_remove_delete(t)
  \/ hash_table_remove_release(t)
  \/ free_guard_clear(t) \/ free_real(t)
InitFree == InitWith({AllSyms}, EnvValues)
NextFree == StepFree(1, {1}, Backtraces) \/ Hook
SpecFree == InitFree /\ [][NextFree]_vars

\* ------------------------------------------------------------------ claims
\* Where a call can be, by what it is doing.
InitLabels == {"init_check", "init_mark", "init_dlsym", "init_export",
               "init_table"}
\* free up to and including the report of a corruption event
ReportLabels == {"free_early", "free_guard", "free_set", "find_lock",
                 "find_lookup", "free_report", "free_corrupt"}
\* free after a successful validation, and the real free
ReleaseLabels == {"remove_lock", "remove_delete", "remove_release",
                  "free_clear", "free_real"}
LockLabels == {"add_lock", "find_lock", "remove_lock"}
CriticalLabels == {"add_insert", "find_lookup", "remove_delete"}
\* The program is between entry-point calls and the process has not begun to
\* shut down.
Quiescent(T) == /\ proc = "running"
                /\ hook = "idle"
                /\ \A t \in T : pc[t] = "idle"
Live == { a \in Addr : IsLive(a) }

\* C1: a free(a), a non-null, called on any thread before the shutting-down
\* flag is set, with a missing from the registry at the time of the call,
\* emits exactly one corruption event and does not reach the real free: the
\* call stays on the path that ends in the corruption report.
C1_AbsentFreeIsReportedNotReleased ==
  \A t \in Threads :
    (fn[t] = "free" /\ loc[t].ptr # NULL /\ loc[t].absent
       /\ profiler_shutting_down = 0)
    => pc[t] \in InitLabels \cup ReportLabels

\* C2: between entry-point calls and before shutdown, an address is in the
\* registry if and only if the real allocator has handed it out to the
\* program and it has not been released since.
C2_RegistryIsLiveSet ==
  Quiescent({1}) => Keys(g_allocations) = Live

\* C3: at every instant and in every interleaving the registry holds at most
\* one record per address, and none for an address whose last release has
\* returned.
C3_AtMostOneRecord ==
  /\ \A a \in Addr : Cardinality(Matches(g_allocations, a)) <= 1
  /\ Quiescent(Threads) => Keys(g_allocations) \subseteq Live

\* C4: the guard is local to one execution context: an allocation that
\* obtained a non-null block never returns untracked because some other
\* thread had the guard set.  A malloc / calloc / realloc that leaves at its
\* guard test has no block to track.
C4_GuardIsPerContext ==
  [][\A t \in Threads :
       /\ (pc[t] = "alloc_guard" /\ pc'[t] = "idle") => loc[t].ptr = NULL
       /\ (pc[t] = "realloc_guard" /\ pc'[t] = "idle")
             => loc[t].new_ptr = NULL]_vars

\* What the report says: the addresses itemised with [LEAK], and the count
\* on the "Libc infrastructure" line (0 when the line is not printed).
LeakLines(a) == { i \in DOMAIN leak_report :
                    leak_report[i].k = "leak" /\ leak_report[i].a = a }
LibcLines == { i \in DOMAIN leak_report : leak_report[i].k = "libc" }
LibcCounted == IF LibcLines = {} THEN 0
               ELSE leak_report[CHOOSE i \in LibcLines : TRUE].n

C6_RemovedBeforeReleased ==
  /\ \A i \in DOMAIN g_allocations : IsLive(g_allocations[i].ptr)
  /\ \A t \in Threads :
       pc[t] = "add_insert" => AddKey(t) \notin Keys(g_allocations)

\* C7: in every execution of the tracking path the guard is set from before
\* the first bookkeeping allocation until after the last, and no address
\* obtained for bookkeeping is ever a key of the registry (keys are blocks
\* of the program's heap).
C7_GuardCoversBookkeeping ==
  /\ \A t \in Threads : pc[t] = "add_alloc" => in_profiler # 0
  /\ Keys(g_allocations) \subseteq Addr

\* C8: single-threaded: after p = malloc(n), the first free(p) is a valid
\* free (the real free is invoked, once), every further free(p) made before
\* the allocator returns p again emits a corruption event and does not reach
\* the real free, and p is not reported as a leak.
C8_DoubleFreeCounted ==
  /\ (fn[1] = "free" /\ loc[1].ptr \in Addr /\ profiler_shutting_down = 0)
       => /\ hist[loc[1].ptr] = "freed" => pc[1] # "free_corrupt"
          /\ hist[loc[1].ptr] = "again" => pc[1] \notin ReleaseLabels
  /\ hook = "drain"
       => \A a \in Addr : hist[a] \in {"freed", "again"} => LeakLines(a) = {}

\* C9: a free that emits a corruption event does not stop the process and
\* changes nothing in the registry, at any step of the call; a free whose
\* argument is in the registry when it is called is never reported as
\* corruption, so the base address of the block can still be freed.
C9_CorruptionFreeIsHarmless ==
  /\ [][/\ (fn[1] = "free" /\ pc[1] \in InitLabels \cup ReportLabels)
             => (g_allocations' = g_allocations /\ heap' = heap)
        /\ pc[1] = "free_corrupt"
             => (proc' = "running" /\ pc'[1] = "idle")]_vars
  /\ [](fn[1] = "free" /\ ~loc[1].absent => pc[1] # "free_corrupt")

\* C9 witness: a corruption event is being reported for an address that is
\* no block while the registry holds a record.
C9_Witness ==
  /\ pc[1] = "free_corrupt"
  /\ loc[1].ptr = Wild
  /\ g_allocations # << >>

C11_OneFreeWins ==
  \A t \in Threads, u \in Threads :
    (t # u /\ fn[t] = "free" /\ fn[u] = "free"
       /\ loc[t].ptr \in Addr /\ loc[u].ptr = loc[t].ptr
       /\ ~loc[t].absent /\ ~loc[u].absent
       /\ profiler_shutting_down = 0)
    => ~(pc[t] \in ReleaseLabels /\ pc[u] \in ReleaseLabels)

\* C12: realloc(p, 0) with p non-null behaves as free(p).  The step that
\* handles size 0 changes nothing of the program, the registry or the heap
\* and leaves the thread exactly where a call free(p) made in the same state
\* starts, with the same argument; from there the steps are those of free,
\* none of which looks at who called.  When the call comes back it hands no
\* address to the program (realloc returns NULL).
C12_ReallocZeroIsFree ==
  /\ [][\A t \in Threads :
          (pc[t] = "realloc_dispatch" /\ pc'[t] # pc[t]
             /\ loc[t].ptr # NULL /\ loc[t].size = 0)
          => /\ fn'[t] = "free"
             /\ pc'[t] = Body("free")
             /\ loc'[t] = [NoLoc EXCEPT !.ptr = loc[t].ptr,
                                        !.absent = loc[t].absent,
                                        !.via = "realloc"]
             /\ UNCHANGED << progVars, tableVars, heap, proc,
                             leak_report >>]_vars
  /\ [][\A t \in Threads :
          (fn[t] = "free" /\ loc[t].via = "realloc" /\ pc'[t] = "idle")
          => hist' = hist]_vars
  /\ [](\A t \in Threads :
          (fn[t] = "realloc" /\ loc[t].ptr # NULL /\ loc[t].size = 0)
          => pc[t] \in InitLabels \cup {"realloc_dispatch"})

\* C12 witness: a realloc(p, 0) on a tracked p has passed validation inside
\* free and is at the real free.
C12_Witness ==
  \E t \in Threads :
    /\ fn[t] = "free" /\ loc[t].via = "realloc"
    /\ pc[t] = "free_real"
    /\ ~loc[t].absent
    /\ loc[t].ptr \notin Keys(g_allocations)

\* C13: realloc(NULL, n) behaves as malloc(n) issued by the same caller: the
\* record it files carries the size n and the provenance tag that malloc(n)
\* called from the same call site computes.
C13_ReallocNullIsMalloc ==
  \A t \in Threads :
    (fn[t] = "malloc" /\ loc[t].via = "realloc"
       /\ pc[t] \in {"add_alloc", "add_lock", "add_insert"})
    => NewInfo(t).is_suspicious =
         is_likely_libc_allocation(loc[t].site.frames, loc[t].site.depth)

\* C14: when realloc(p, n), p tracked and n > 0, got q non-null from the
\* real reallocate and has finished its bookkeeping, the registry holds
\* exactly one record for q, of size n, and none for p unless q = p; so a
\* later free(q) is a valid free.
C14_ReallocRetracks ==
  (fn[1] = "realloc" /\ pc[1] = "guard_clear"
     /\ ~loc[1].absent /\ loc[1].new_ptr # NULL)
  => /\ Cardinality(Matches(g_allocations, loc[1].new_ptr)) = 1
     /\ \A i \in Matches(g_allocations, loc[1].new_ptr) :
          g_allocations[i].size = loc[1].size
     /\ loc[1].new_ptr # loc[1].ptr
          => loc[1].ptr \notin Keys(g_allocations)

\* C15: hash_table_add for an address that is already in the registry
\* replaces the record: after the insert the registry holds exactly one
\* record for the address, the one just filled in (new size, stack and
\* provenance).
C15_AddReplaces ==
  [][\A t \in Threads :
       (pc[t] = "add_insert" /\ pc'[t] # pc[t]
          /\ AddKey(t) \in Keys(g_allocations))
       => /\ Cardinality(Matches(g_allocations', AddKey(t))) = 1
          /\ \A i \in Matches(g_allocations', AddKey(t)) :
               g_allocations'[i] = NewInfo(t)]_vars

\* C16: failing to obtain the record's storage is not fatal.  The step of
\* hash_table_add that returns early leaves the registry, the heap and the
\* caller's locals as they were and the process running; the caller then
\* clears the guard and returns the address it got from the real
\* allocator, which the program receives.
C16_StorageFailureIsNonFatal ==
  /\ [][pc[1] = "add_alloc"
          => /\ proc' = "running"
             /\ pc'[1] \in {"add_alloc", "add_lock", "guard_clear"}
             /\ pc'[1] = "guard_clear"
                  => /\ g_allocations' = g_allocations
                     /\ heap' = heap
                     /\ loc'[1] = loc[1]]_vars
  /\ [][(pc[1] = "guard_clear" /\ pc'[1] # pc[1])
          => /\ in_profiler' = 0
             /\ pc'[1] = "idle"
             /\ proc' = "running"
             /\ g_allocations' = g_allocations
             /\ AddKey(1) \in Addr
                  => hist'[AddKey(1)] \in {"out", "other"}]_vars

\* C16 witness: malloc is at its final `in_profiler = 0` with a block from
\* the real allocator for which no record was filed.
C16_Witness ==
  /\ pc[1] = "guard_clear"
  /\ fn[1] \in {"malloc", "calloc"}
  /\ IsLive(loc[1].ptr)
  /\ loc[1].ptr \notin Keys(g_allocations)
  /\ real_malloc_ptr

\* C17: the shutdown hook sets the shutting-down flag before it reports or
\* frees anything: whenever the hook has started the flag is set, the report
\* is written and the records are torn down only with the flag set, and the
\* flag is never cleared again.
C17_FlagBeforeTeardown ==
  /\ [](hook # "idle" => profiler_shutting_down = 1)
  /\ [][(leak_report' # leak_report \/ teardown' # teardown)
          => profiler_shutting_down = 1]_vars
  /\ [][profiler_shutting_down = 1 => profiler_shutting_down' = 1]_vars

\* C17 witness: the hook is about to tear down a table that holds a record.
C17_Witness ==
  /\ hook = "drain"
  /\ g_allocations # << >>
  /\ profiler_shutting_down = 1

\* C18: once shutting-down is set, free(a), a non-null, goes from its first
\* test straight to the real free, which it calls once before returning; it
\* is never on the validation or corruption path, whether a has a record or
\* not, and no step of the call changes the registry.
C18_ShutdownFreeDelegates ==
  /\ []((fn[1] = "free" /\ loc[1].ptr # NULL /\ profiler_shutting_down = 1)
          => pc[1] \in InitLabels \cup {"free_early", "free_real"})
  /\ [][(fn[1] = "free" /\ loc[1].ptr # NULL /\ profiler_shutting_down = 1)
          => /\ g_allocations' = g_allocations
             /\ pc[1] = "free_early" => pc'[1] \in {"free_early", "free_real"}
             /\ (pc[1] = "free_real" /\ pc'[1] # pc[1])
                  => /\ pc'[1] = "idle"
                     /\ heap' = HeapFree(heap, loc[1].ptr)]_vars

\* C18 witness: after shutdown a free is at the real free for an address
\* that has a record.
C18_Witness ==
  /\ profiler_shutting_down = 1
  /\ fn[1] = "free" /\ pc[1] = "free_real"
  /\ loc[1].ptr \in Keys(g_allocations)

\* The real_free_ptr calls of the teardown for storage k of record i.
TeardownCalls(td, k, i) ==
  { j \in DOMAIN td : td[j] = StorageFree(k, i) }
\* The counts printed on the summary's "Real leaks" line (0 when absent).
RealLines == { i \in DOMAIN leak_report : leak_report[i].k = "real" }
RealCounted == IF RealLines = {} THEN 0
               ELSE leak_report[CHOOSE i \in RealLines : TRUE].n

\* C19: the shutdown pass visits every record that is in the registry when
\* the hook starts exactly once (every record is either itemised or counted
\* as infrastructure, once), and the teardown leaves the registry empty
\* having released, through the real free, each record's storage once and
\* each record's stack copy once.
C19_DrainVisitsEachOnce ==
  /\ [](hook = "drain" =>
          /\ RealCounted + LibcCounted = Len(g_allocations)
          /\ Cardinality({ i \in DOMAIN leak_report :
                             leak_report[i].k = "leak" })
               = Cardinality({ i \in DOMAIN g_allocations :
                                 g_allocations[i].is_suspicious = 0 }))
  /\ [][(hook = "drain" /\ hook' = "done")
          => /\ g_allocations' = << >>
             /\ \A i \in DOMAIN g_allocations :
                  /\ Cardinality(TeardownCalls(teardown', "info", i)) = 1
                  /\ Cardinality(TeardownCalls(teardown', "stack_trace", i))
                       = IF g_allocations[i].stack_trace # NULL
                         THEN 1 ELSE 0
             /\ \A j \in DOMAIN teardown' :
                  teardown'[j].rec \in DOMAIN g_allocations]_vars

\* C19 witness: the hook has finished after tearing down two records, one of
\* them with a stack copy.
C19_Witness ==
  /\ hook = "done"
  /\ TeardownCalls(teardown, "info", 2) # {}
  /\ \E i \in 1 .. 2 : TeardownCalls(teardown, "stack_trace", i) # {}

\* C20: the leak report is emitted only if a record remains: when every
\* tracked allocation has been passed to the release path the registry is
\* empty at shutdown and nothing is printed, no header, no [LEAK] line and
\* no summary.
C20_NoRecordNoReport ==
  /\ hook \in {"report", "drain"}
       => ((\A a \in Addr : tracked[a] = "no") => g_allocations = << >>)
  /\ hook = "drain"
       => (g_allocations = << >> => leak_report = << >>)

\* C20 witness: the report step is over and printed nothing for a run in
\* which a block was allocated and freed.
C20_Witness ==
  /\ hook = "drain"
  /\ leak_report = << >>
  /\ \E a \in Addr : hist[a] \in {"freed", "other"} /\ ~IsLive(a)
  /\ nops = MaxOps

\* The file name dladdr() gave for frame 1 of call site s contains the text
\* libc.so.
Frame1InLibc(s) ==
  /\ s.frames[1].ret # 0
  /\ s.frames[1].has_fname
  /\ \E i \in DOMAIN s.frames[1].dli_fname :
       s.frames[1].dli_fname[i] = "libc.so"

\* C24: the provenance tag depends only on the stack length and on frame 1:
\* it is infrastructure exactly when at least two frames were captured and
\* the file name of the object owning frame 1 contains libc.so, user
\* otherwise (fewer than two frames, frame 1 not resolved); the deeper frames
\* never change it.
C24_ClassifierLooksAtFrame1 ==
  \A t \in Threads :
    (pc[t] \in {"add_alloc", "add_lock", "add_insert"}
       /\ loc[t].via = "program")
    => /\ (loc[t].is_suspicious = 1)
            <=> (loc[t].site.depth >= 2 /\ Frame1InLibc(loc[t].site))
       /\ loc[t].is_suspicious \in {0, 1}
       /\ \A f2 \in Objects :
            is_likely_libc_allocation(
              << loc[t].site.frames[1], f2 >>, loc[t].site.depth)
              = loc[t].is_suspicious

\* C24 witness: a call from user code that libc called back (frame 1 in the
\* program, frame 2 in libc.so) has been classified.
C24_Witness ==
  /\ pc[1] = "add_alloc"
  /\ loc[1].site = Site(9, Obj(UserPath), Obj(LibcPath))
  /\ loc[1].is_suspicious = 0

\* The records of the registry by provenance tag, and the sum of the sizes
\* recorded in a set of them.
UserRecords == { i \in DOMAIN g_allocations :
                   g_allocations[i].is_suspicious = 0 }
LibcRecords == { i \in DOMAIN g_allocations :
                   g_allocations[i].is_suspicious # 0 }
RECURSIVE SumSizes(_)
SumSizes(I) ==
  IF I = {} THEN 0
  ELSE LET i == CHOOSE j \in I : TRUE
       IN g_allocations[i].size + SumSizes(I \ {i})
\* The byte totals printed on the two summary lines (0 when absent).
RealBytes == IF RealLines = {} THEN 0
             ELSE leak_report[CHOOSE i \in RealLines : TRUE].b
LibcBytes == IF LibcLines = {} THEN 0
             ELSE leak_report[CHOOSE i \in LibcLines : TRUE].b
SummaryLines == { i \in DOMAIN leak_report : leak_report[i].k = "summary" }
HeaderLines == { i \in DOMAIN leak_report : leak_report[i].k = "header" }

\* C21: in the shutdown summary the "Real leaks" count is the number of
\* user-tagged records left in the registry and its byte total the sum of
\* their recorded sizes; the infrastructure count and bytes are the number
\* and the size sum of the infrastructure-tagged records.
C21_SummaryCounts ==
  (hook = "drain" /\ SummaryLines # {})
  => /\ Cardinality(RealLines) = 1
     /\ RealCounted = Cardinality(UserRecords)
     /\ RealBytes = SumSizes(UserRecords)
     /\ LibcCounted = Cardinality(LibcRecords)
     /\ LibcBytes = SumSizes(LibcRecords)

\* C21 witness: two user allocations of different sizes leaked; the summary
\* says 2 allocations and the sum of the two sizes.
C21_Witness ==
  /\ hook = "drain"
  /\ RealCounted = 2
  /\ RealBytes = 1 + MaxSize
  /\ \E i \in UserRecords : g_allocations[i].size = MaxSize

\* C22: records tagged infrastructure are never itemised with a [LEAK] line
\* (the itemised lines are the user-tagged records, one each), and the
\* "Libc infrastructure" line is printed if and only if at least one
\* infrastructure-tagged record remains.
C22_InfrastructureNotItemised ==
  hook = "drain"
  => /\ \A i \in LibcRecords : LeakLines(g_allocations[i].ptr) = {}
     /\ \A i \in UserRecords :
          Cardinality(LeakLines(g_allocations[i].ptr)) = 1
     /\ (LibcLines # {}) <=> (LibcRecords # {})

\* C22 witness: the report is out for a registry holding one record of each
\* tag.
C22_Witness ==
  /\ hook = "drain"
  /\ LibcRecords # {} /\ UserRecords # {}
  /\ LibcLines # {}

\* C23: whenever the shutdown report is emitted (a record of either tag
\* remains) the header line is printed exactly once, before the summary.
C23_HeaderOnceBeforeSummary ==
  (hook = "drain" /\ leak_report # << >>)
  => /\ Cardinality(HeaderLines) = 1
     /\ \A h \in HeaderLines, m \in SummaryLines : h < m

\* C25: the provenance tag of a record is written when the record is
\* inserted and never afterwards: every record in the registry after a step
\* was there before the step with the same fields, or is the record that
\* this step's hash_table_add inserted with the tag its caller computed.
C25_TagIsStable ==
  [][\A j \in DOMAIN g_allocations' :
       \/ \E i \in DOMAIN g_allocations : g_allocations[i] = g_allocations'[j]
       \/ \E t \in Threads :
            /\ pc[t] = "add_insert" /\ pc'[t] # pc[t]
            /\ j = Len(g_allocations')
            /\ g_allocations'[j] = NewInfo(t)
            /\ g_allocations'[j].is_suspicious = loc[t].is_suspicious]_vars

\* C25 witness: the report has been written, and a lookup and a removal for
\* another address have run, while an infrastructure-tagged record stayed in
\* the registry.
C25_Witness ==
  /\ hook = "drain"
  /\ LibcRecords # {}
  /\ \E a \in Addr : hist[a] = "freed" /\ a \notin Keys(g_allocations)

C27_NullIsPassedThrough ==
  /\ [][(pc[1] \in {"malloc_real", "calloc_real"} /\ pc'[1] = "alloc_guard"
           /\ loc'[1].ptr = NULL)
          => (heap' = heap /\ UNCHANGED << progVars, tableVars >>)]_vars
  /\ [][(pc[1] = "alloc_guard" /\ loc[1].ptr = NULL /\ pc'[1] # pc[1])
          => /\ pc'[1] = "idle"
             /\ hist' = hist
             /\ UNCHANGED << progVars, tableVars, reportVars, heap,
                             proc >>]_vars

\* C27 witness: calloc has NULL from the real allocator while the registry
\* holds a record.
C27_Witness ==
  /\ pc[1] = "alloc_guard"
  /\ fn[1] = "calloc"
  /\ loc[1].ptr = NULL
  /\ g_allocations # << >>

\* C28: a calloc(count, size) that got a block files a record whose size is
\* the product count * size (which fits size_t, or the real calloc had
\* refused), and which is otherwise the record malloc files: the block's
\* address and the tag and stack depth computed from the call site.
C28_CallocTracksProduct ==
  /\ [][(pc[1] = "calloc_real" /\ pc'[1] = "alloc_guard"
           /\ loc'[1].ptr # NULL)
          => /\ loc'[1].size = loc[1].nmemb * loc[1].size
             /\ loc[1].nmemb * loc[1].size < SizeMod]_vars
  /\ [][(pc[1] = "add_insert" /\ pc'[1] # pc[1]
           /\ fn[1] \in {"calloc", "malloc"})
          => g_allocations' =
               Append(g_allocations,
                      [ptr |-> loc[1].ptr, size |-> loc[1].size,
                       is_suspicious |->
                         is_likely_libc_allocation(loc[1].site.frames,
                                                   loc[1].site.depth),
                       stack_depth |-> loc[1].depth,
                       stack_trace |-> IF loc[1].depth > 0
                                       THEN 1 ELSE NULL])]_vars
  /\ [](fn[1] = "calloc" => loc[1].size < SizeMod)

\* C28 witness: calloc has filed a record of size MaxSize, the product of
\* its two arguments, for the block it is about to return.
C28_Witness ==
  /\ fn[1] = "calloc" /\ pc[1] = "guard_clear"
  /\ \E i \in DOMAIN g_allocations :
       /\ g_allocations[i].ptr = loc[1].ptr
       /\ g_allocations[i].size = MaxSize

\* The body of profiler_init after its `if (profiler_initialized) return;`
InitBody == InitLabels \ {"init_check"}

\* C29: initialization happens exactly once in every interleaving of first
\* calls: never are two threads both inside the body of profiler_init (the
\* lookup and the table reset would run twice), and the table is never
\* reset when it holds a record.
C29_InitOnce ==
  /\ Cardinality({ t \in Threads : pc[t] \in InitBody }) <= 1
  /\ \A t \in Threads : pc[t] = "init_table" => g_allocations = << >>

\* C30: no entry point calls through a real-allocator pointer before
\* initialization has assigned it: a thread about to call real_malloc,
\* real_calloc, real_realloc or real_free finds the pointer set.
C30_RealPointersResolved ==
  \A t \in Threads :
    /\ pc[t] = "malloc_real" => real_malloc
    /\ pc[t] = "calloc_real" => real_calloc
    /\ pc[t] = "realloc_real" => real_realloc
    /\ pc[t] = "free_real" => real_free

\* realloc has called the real realloc with the guard clear and is updating
\* the registry.
ReallocTracking(t) ==
  /\ fn[t] = "realloc"
  /\ pc[t] \in {"realloc_set", "remove_lock", "remove_delete",
                "remove_release", "realloc_new", "add_alloc", "add_lock", "add_insert",
                "guard_clear"}
\* The table without the records filed under address a.
Without(tab, a) == SelectSeq(tab, LAMBDA r : r.ptr # a)

\* C31: when the real realloc returns null for realloc(p, n), p non-null,
\* n > 0, guard clear, the record of p is removed from the registry, no
\* record is inserted, and realloc returns null to the program with the
\* guard clear again.
C31_FailedReallocDropsRecord ==
  /\ [][(ReallocTracking(1) /\ loc[1].new_ptr = NULL /\ pc'[1] # pc[1])
        => /\ pc[1] = "remove_delete"
                => g_allocations' = Without(g_allocations, loc[1].ptr)
           /\ pc[1] # "remove_delete" => g_allocations' = g_allocations
           /\ pc[1] = "realloc_new" => pc'[1] = "guard_clear"
           /\ pc[1] = "guard_clear"
                => /\ pc'[1] = "idle"
                   /\ in_profiler' = 0
                   /\ hist' = hist
                   /\ loc[1].ptr \notin Keys(g_allocations')]_vars
  /\ [](ReallocTracking(1) /\ loc[1].new_ptr = NULL
          => pc[1] \notin {"add_alloc", "add_lock", "add_insert"})

\* C31 witness: the real realloc has failed on a tracked block and realloc is
\* about to return, the record gone and the block still live.
C31_Witness ==
  /\ pc[1] = "guard_clear"
  /\ fn[1] = "realloc"
  /\ loc[1].new_ptr = NULL
  /\ ~loc[1].absent
  /\ IsLive(loc[1].ptr)
  /\ loc[1].ptr \notin Keys(g_allocations)

\* C32: records are created and destroyed only while the reentrancy guard is
\* set: whenever malloc, calloc, realloc or free is about to link a record
\* into the registry or to look one up and unlink it, and whenever the
\* shutdown drain is about to destroy the records that remain, in_profiler
\* is 1.
C32_RecordsChangeUnderGuard ==
  /\ \A t \in Threads :
       pc[t] \in {"add_insert", "remove_delete"} => in_profiler = 1
  /\ (hook = "drain" /\ g_allocations # << >>) => in_profiler = 1

\* C33: locking discipline.  A thread holds the registry's mutex exactly
\* while it is at the table insert, the lookup or the lookup-and-delete, and
\* gives it up in the step that does it; the storage of a new record is
\* obtained before the mutex is acquired and the storage of a removed record
\* is released after the mutex is released.
C33_LockingDiscipline ==
  /\ [](\A t \in Threads :
          /\ (hash_table_mutex = t) <=> (pc[t] \in CriticalLabels)
          /\ pc[t] \in {"add_alloc", "remove_release"}
               => hash_table_mutex # t)
  /\ [][\A t \in Threads :
          /\ (hash_table_mutex = t /\ pc'[t] # pc[t]) => hash_table_mutex' = 0
          /\ (pc[t] = "add_alloc" /\ pc'[t] # pc[t])
               => pc'[t] \in {"add_lock", "guard_clear"}
          /\ (pc[t] = "remove_delete" /\ pc'[t] # pc[t])
               => pc'[t] = "remove_release"]_vars

\* C33 witness: one thread releases the storage of the record it has just
\* unlinked while the other is inside a critical section.
C33_Witness ==
  /\ pc[1] = "remove_release"
  /\ loc[1].found.ptr # NULL
  /\ hash_table_mutex = 2

\* dlsym cannot resolve the real malloc or the real free.
BootstrapFails == "malloc" \notin dlsym_ok \/ "free" \notin dlsym_ok

\* C34: bootstrap failure is fatal and immediate: when the lookup of the
\* real malloc or of the real free yields null, the first call never gets
\* past the verification in profiler_init, which ends the process: nothing
\* was obtained from the real allocator, real_malloc_ptr and real_free_ptr
\* were never published, the registry was never initialised or filled, and
\* nothing runs after the exit, the shutdown hook included.
C34_BootstrapFailureIsFatal ==
  /\ [](BootstrapFails
          => /\ nops > 0 => pc[1] \in InitLabels \ {"init_table"}
             /\ ~real_malloc_ptr /\ ~real_free_ptr
             /\ g_allocations = << >>
             /\ \A a \in Addr : heap[a] = "free"
             /\ proc # "crashed")
  /\ [](proc = "exited" => BootstrapFails /\ pc[1] = "init_export")
  /\ [][/\ (BootstrapFails /\ pc[1] = "init_export") => proc' = "exited"
        /\ proc = "exited" => FALSE]_vars

\* C34 witness: the process has exited in the first call, a malloc, because
\* the real free could not be found though the real malloc was.
C34_Witness ==
  /\ proc = "exited"
  /\ fn[1] = "malloc"
  /\ real_malloc /\ ~real_free

\* The stack-traces toggle as profiler_init reads it: on unless the variable
\* is set to "0".
TraceOn == env_stack_traces # "0"
\* The number of frames dumped for address a in the lines written.
RECURSIVE FramesShown(_, _)
FramesShown(lines, a) ==
  IF lines = << >> THEN 0
  ELSE (IF Head(lines).k = "frames" /\ Head(lines).a = a
        THEN Head(lines).n ELSE 0) + FramesShown(Tail(lines), a)

\* C35: frames are dumped for a leak or a corruption event if and only if
\* PROFILER_STACK_TRACES was absent or different from "0" at init, and then
\* min(depth, 7) of them: depth is the record's stack_depth for a leak, and
\* the depth of the current stack, at most 16, for a corruption event.
C35_FramesFollowToggle ==
  /\ hook = "drain"
       => \A i \in DOMAIN g_allocations :
            g_allocations[i].is_suspicious = 0
            => FramesShown(leak_report, g_allocations[i].ptr)
                 = IF TraceOn
                   THEN Min(g_allocations[i].stack_depth, TOP_FRAMES)
                   ELSE 0
  /\ pc[1] = "free_corrupt"
       => /\ FramesShown(loc[1].event, loc[1].ptr)
               = IF TraceOn THEN Min(loc[1].depth, TOP_FRAMES) ELSE 0
          /\ TraceOn
               => /\ loc[1].depth <= MAX_STACK_FRAMES
                  /\ loc[1].depth
                       = Min(Backtrace(1, loc[1].site).depth + 1,
                             MAX_STACK_FRAMES)
          /\ Head(loc[1].event) = Line("corruption", loc[1].ptr, 0, 0)

\* C35 witness: with PROFILER_STACK_TRACES=1 a corruption event is reported
\* from a stack deeper than 16 frames, and 7 frames are dumped.
C35_Witness ==
  /\ env_stack_traces = "1"
  /\ pc[1] = "free_corrupt"
  /\ loc[1].depth = MAX_STACK_FRAMES
  /\ FramesShown(loc[1].event, loc[1].ptr) = TOP_FRAMES

\* C36: in a single-threaded run the guard is balanced: whenever malloc,
\* calloc, realloc or free returns to the program in_profiler is 0, whatever
\* path the call took, and it is 0 whenever the program is between calls.
C36_GuardBalanced ==
  /\ [](pc[1] = "idle" => in_profiler = 0)
  /\ [][(pc[1] # "idle" /\ pc'[1] = "idle") => in_profiler' = 0]_vars

\* C36 witness: the program is between calls after a free that took the
\* corruption path (the second free of an address), and the guard is clear.
C36_Witness ==
  /\ pc[1] = "idle"
  /\ nops = MaxOps
  /\ in_profiler = 0
  /\ hook = "idle"
  /\ \E a \in Addr : hist[a] = "again"

ResizeLabels == InitLabels
                  \cup {"realloc_dispatch", "realloc_real", "realloc_guard",
                        "realloc_set", "remove_lock", "remove_delete",
                        "remove_release", "realloc_new", "add_alloc",
                        "add_lock", "add_insert", "guard_clear"}

\* C38: realloc(p, n), p non-null and missing from the registry, n > 0, is
\* not validated: the call reports no corruption and passes p to the real
\* realloc; its removal step leaves the registry as it was; and when the
\* real realloc returned a non-null address, the call returns with a record
\* for that address, of size n, in the registry.
C38_UntrackedReallocIsTracked ==
  /\ [](\A t \in {1} :
          (fn[t] = "realloc" /\ loc[t].absent /\ loc[t].ptr # NULL
             /\ loc[t].size > 0)
          => /\ pc[t] \in ResizeLabels
             /\ (pc[t] = "guard_clear" /\ loc[t].new_ptr # NULL)
                  => \E i \in Matches(g_allocations, loc[t].new_ptr) :
                       g_allocations[i].size = loc[t].size)
  /\ [][\A t \in {1} :
          (fn[t] = "realloc" /\ loc[t].absent /\ pc[t] = "remove_delete")
          => g_allocations' = g_allocations]_vars

====
